---- MODULE Spec2Model ----
(***************************************************************************)
(* i3-alternate-focus: the focus history kept by focus_server, the command *)
(* server cmd_server and the switcher focus_nth of src/src/main.rs, with   *)
(* the window manager (i3) as their environment.                           *)
(*                                                                         *)
(* Time is counted in whole seconds: clock is Instant::now(), and a        *)
(* record's focused field is the clock value at which it was created.      *)
(* Instants are only ever compared by difference (Instant::elapsed), so    *)
(* an Instant taken before the first state of a behaviour is a negative    *)
(* number.                                                                 *)
(*                                                                         *)
(* What a step did towards the outside (the line it read, what it wrote    *)
(* to the client, what focus_nth returned, what the notification found)    *)
(* is recorded in `last`, for the one state the step leads to.             *)
(***************************************************************************)
EXTENDS Integers, Sequences, FiniteSets, TLC

\* ---------------------------------------------------------------- bounds
NumWindows == 2      \* window ids (con_id) of the main specification
NumSeeded == 3       \* SpecStale, SpecToggle: windows of the seeded history
NumConns == 2        \* client connections served at the same time
MaxTime == 2         \* the clock stops advancing here
MaxEvents == 1       \* organic focus notifications waiting in the feed
NumFresh == 2        \* SpecFill: windows not yet in the full history
MaxFeed == 2         \* SpecFeed: notifications of any kind waiting in the feed

\* ------------------------------------------------------ program constants
MIN_FOCUS == 2
BUFFER_SIZE == 100
SWITCH_COMMAND == "switch"
DEBUG_COMMAND == "debug"
INVALID_REPLY == "Invalid command\n"
FOCUS_NTH_START == 1

Windows == 1..NumWindows
Conns == 1..NumConns
NoWindow == 0
Organic == 0
Free == 0

VARIABLES
    windows,    \* Arc<Mutex<VecDeque<Window>>>: the history, front first
    holder,     \* the thread holding the Mutex: Free, or a connection
    poisoned,   \* the Mutex was held by a thread that panicked
    main,       \* the main thread: "boot" (focus_server before the loop),
                \* "loop", or "panicked": the process is gone and the
                \* behaviour ends
    clock,      \* Instant::now(), in seconds
    pc,         \* per connection thread: where it is in the handler
    k,          \* per connection thread: focus_nth's index k
    alive,      \* i3: the windows that exist
    wmFocused,  \* i3: the window holding the focus
    events,     \* i3: focus notifications not yet read by listener.listen()
    reqs,       \* i3: the run_command calls of the running focus_nth call,
                \* kept in the state its return leads to
    last,       \* what the step leading to this state did (see Nothing)
    dumped      \* the last two dumps written to clients since the history
                \* was last written

vars == <<windows, holder, poisoned, main, clock, pc, k, alive, wmFocused,
          events, reqs, last, dumped>>

\* the main thread is in the loop over listener.listen(), cmd_server spawned
serverUp == main = "loop"

\* ------------------------------------------------------------ the history

\* Window::new
Window(id, now) == [id |-> id, just_switched |-> FALSE, focused |-> now]

Ids(ws) == {ws[i].id : i \in 1..Len(ws)}

\* mutant of MarkPendingSwitch: every record is marked
MarkAll(ws) == [i \in 1..Len(ws) |-> [ws[i] EXCEPT !.just_switched = TRUE]]

\* mutant of MarkPendingSwitch: the front record is not marked
MarkNothing(ws) == ws

\* front_mut().iter_mut().for_each(|win| win.just_switched = true)
MarkPendingSwitch(ws) ==
    IF ws = <<>> THEN ws ELSE [ws EXCEPT ![1].just_switched = TRUE]

\* mutant of Debounce: elapsed() <= MIN_FOCUS
DebounceLe(ws, now) ==
    IF ws = <<>> THEN ws
    ELSE IF ws[1].just_switched THEN [ws EXCEPT ![1].just_switched = FALSE]
    ELSE IF now - ws[1].focused <= MIN_FOCUS THEN Tail(ws)
    ELSE ws

\* mutant of Debounce: just_switched is read, not replaced by false
DebounceKeepFlag(ws, now) ==
    IF ws = <<>> THEN ws
    ELSE IF ws[1].just_switched THEN ws
    ELSE IF now - ws[1].focused < MIN_FOCUS THEN Tail(ws)
    ELSE ws

\* if let Some(win) = front_mut() { if !mem::replace(&mut win.just_switched,
\* false) { if win.focused.elapsed() < MIN_FOCUS { pop_front() } } }
Debounce(ws, now) ==
    IF ws = <<>> THEN ws
    ELSE IF ws[1].just_switched THEN [ws EXCEPT ![1].just_switched = FALSE]
    ELSE IF now - ws[1].focused < MIN_FOCUS THEN Tail(ws)
    ELSE ws

\* mutant of Retain: the test is inverted
RetainInverted(ws, new_id) ==
    LET Keep(v) == v.id = new_id IN SelectSeq(ws, Keep)

\* mutant of Retain: nothing is removed
RetainAll(ws, new_id) == ws

\* windows.retain(|v| v.id != e.container.id)
Retain(ws, new_id) ==
    LET Keep(v) == v.id # new_id IN SelectSeq(ws, Keep)

\* mutant of PushFront: push_back
PushBack(ws, new_id, now) == ws \o <<Window(new_id, now)>>

\* windows.push_front(Window::new(e.container.id))
PushFront(ws, new_id, now) == <<Window(new_id, now)>> \o ws

\* mutant of Truncate: the front is cut, not the tail
TruncateFront(ws, n) ==
    IF Len(ws) > n THEN SubSeq(ws, Len(ws) - n + 1, Len(ws)) ELSE ws

\* windows.truncate(BUFFER_SIZE)
Truncate(ws, n) == IF Len(ws) > n THEN SubSeq(ws, 1, n) ELSE ws

\* the body of the WindowChange::Focus arm
OnFocus(ws, new_id, now) ==
    Truncate(PushFront(Retain(Debounce(ws, now), new_id), new_id, now),
             BUFFER_SIZE)

\* mutant of Dump: the time since focused is written, not the Instant
DumpElapsed(ws) ==
    [i \in 1..Len(ws) |-> <<ws[i].id, ws[i].just_switched, clock - ws[i].focused>>]

\* write!(&mut stream, "{:#?}\n", winc): every field of every record, in order
Dump(ws) == [i \in 1..Len(ws) |-> <<ws[i].id, ws[i].just_switched, ws[i].focused>>]

\* ------------------------------------------------------- the command line

NoLine == [tag |-> "none", text |-> ""]
SwitchLine == [tag |-> "line", text |-> SWITCH_COMMAND]
DebugLine == [tag |-> "line", text |-> DEBUG_COMMAND]
Lines == {SwitchLine, DebugLine,
          [tag |-> "line", text |-> "foobar"],
          [tag |-> "line", text |-> ""],
          [tag |-> "eof", text |-> ""],
          [tag |-> "err", text |-> ""]}

\* mutant of Dispatch: every line that is not `switch` is taken as `debug`
DispatchAnyLine(l) ==
    IF l.tag = "line" /\ l.text = SWITCH_COMMAND THEN "switch"
    ELSE IF l.tag = "line" THEN "debug"
    ELSE "invalid"

\* the match on reader.next()
Dispatch(l) ==
    IF l.tag = "line" /\ l.text = SWITCH_COMMAND THEN "switch"
    ELSE IF l.tag = "line" /\ l.text = DEBUG_COMMAND THEN "debug"
    ELSE "invalid"

\* ------------------------------------------------------- what a step did

\* kind: "none", or "accept" for a line read and matched, or the handler
\* that ended in the step ("invalid", "debug", "switch"), or for an event
\* read from the feed "ingest" (a focus notification), "skip" (a window
\* event with another change) or "unreachable" (another type), or "boot" for
\* the bootstrap (ret: what get_focused_window returned); conn, line: the
\* connection and the line it had sent; sent: what was written to it; ret:
\* what focus_nth returned; panic: the thread panicked; before, cause: the
\* history as the notification found it and what had caused the notification
Nothing == [kind |-> "none", conn |-> Free, line |-> NoLine, sent |-> <<>>,
            ret |-> "none", panic |-> FALSE, before |-> <<>>, cause |-> Organic]

\* a step that is not the end of a focus_nth call leaves its log alone while
\* the call runs; the log of a call that has returned is dropped
KeepLog == reqs' = IF holder = Free THEN <<>> ELSE reqs

\* ------------------------------------------------------- the event feed

\* an event as listener.listen() yields it: its type (Event::WindowEvent is
\* "window"), for a window event its change and container id; cause (not in
\* the program) tells what made i3 emit it: Organic, or the connection whose
\* switch command asked for the focus
Event(type, change, id, cause) ==
    [type |-> type, change |-> change, id |-> id, cause |-> cause]

\* a window event with change = focus
FocusEvent(id, cause) == Event("window", "focus", id, cause)

\* changes of a window event other than focus, and types of events other
\* than window
OtherChanges == {"new", "title"}
OtherTypes == {"workspace"}

\* Event::WindowEvent(e) => ..., _ => unreachable!()
IsWindowEvent(e) == e.type = "window"

\* mutant of IsFocusChange: the change of the window event is not looked at
IsFocusAnyChange(e) == TRUE

\* if let WindowChange::Focus = e.change
IsFocusChange(e) == e.change = "focus"

\* mutant of CanLock: lock() does not wait for the holder
CanLockHeld(h) == TRUE

\* Mutex::lock returns when no other thread holds the Mutex
CanLock(h) == h = Free

\* ------------------------------------------------------------------- Init

InitConns ==
    /\ holder = Free
    /\ poisoned = FALSE
    /\ main = "loop"
    /\ pc = [c \in Conns |-> "idle"]
    /\ k = [c \in Conns |-> 0]
    /\ reqs = <<>>
    /\ last = Nothing
    /\ dumped = <<>>

\* focus_server when it enters its loop: the history is seeded with the
\* focused window, or left empty when get_focused_window() returned Err (the
\* states Bootstrap leads to).
Init ==
    /\ InitConns
    /\ clock = 0
    /\ alive = Windows
    /\ wmFocused \in Windows
    /\ windows \in {<<>>, <<Window(wmFocused, 0)>>}
    /\ events = <<>>

\* focus_server before anything was done: the history is empty, i3 runs
InitBoot ==
    /\ holder = Free
    /\ poisoned = FALSE
    /\ main = "boot"
    /\ pc = [c \in Conns |-> "idle"]
    /\ k = [c \in Conns |-> 0]
    /\ reqs = <<>>
    /\ last = Nothing
    /\ dumped = <<>>
    /\ clock = 0
    /\ alive = Windows
    /\ wmFocused \in Windows
    /\ windows = <<>>
    /\ events = <<>>

\* ---------------------------------------------------------------- actions

\* mutant of GetFocusedWindow: the walk returns the node it stopped at
GetFocusedWindowAny(found) ==
    [ret |-> "ok", id |-> IF found THEN wmFocused ELSE NoWindow]

\* get_focused_window(): Ok(id of the focused node) when the walk down the
\* tree finds it, Err(()) when a node on the way has no focus child among
\* its nodes (the focused window is floating)
GetFocusedWindow(found) ==
    IF found THEN [ret |-> "ok", id |-> wmFocused]
    ELSE [ret |-> "err", id |-> NoWindow]

\* focus_server up to the loop: get_focused_window().map(push_front).ok(),
\* then cmd_server is spawned and the feed subscribed
Bootstrap(found) ==
    /\ main = "boot"
    /\ main' = "loop"
    /\ LET r == GetFocusedWindow(found)
       IN /\ windows' = IF r.ret = "ok" THEN PushFront(windows, r.id, clock)
                        ELSE windows
          /\ last' = [Nothing EXCEPT !.kind = "boot", !.ret = r.ret]
    /\ UNCHANGED <<holder, poisoned, clock, pc, k, alive, wmFocused, events,
                   reqs, dumped>>

\* get_focused_window(): I3Connection::connect() or get_tree() fails and
\* unwrap() panics in the main thread
BootstrapPanic ==
    /\ main = "boot"
    /\ main' = "panicked"
    /\ last' = [Nothing EXCEPT !.kind = "boot", !.panic = TRUE]
    /\ UNCHANGED <<windows, holder, poisoned, clock, pc, k, alive, wmFocused,
                   events, reqs, dumped>>

\* time passes
Tick ==
    /\ serverUp
    /\ clock < MaxTime
    /\ clock' = clock + 1
    /\ last' = Nothing
    /\ KeepLog
    /\ UNCHANGED <<windows, holder, poisoned, main, pc, k, alive,
                   wmFocused, events, dumped>>

\* i3: the user focuses window w; i3 emits a window event, change = focus
\* (room: the feed holds at most so many events)
UserFocus(w, room) ==
    /\ serverUp
    /\ w \in alive
    /\ w # wmFocused
    /\ Len(events) < room
    /\ wmFocused' = w
    /\ events' = Append(events, FocusEvent(w, Organic))
    /\ last' = Nothing
    /\ KeepLog
    /\ UNCHANGED <<windows, holder, poisoned, main, clock, pc, k, alive,
                   dumped>>

OrganicFocus(w) == UserFocus(w, MaxEvents)

\* i3: a window event of window w with a change other than focus
OtherWindowEvent(w, ch) ==
    /\ serverUp
    /\ w \in alive
    /\ Len(events) < MaxFeed
    /\ events' = Append(events, Event("window", ch, w, Organic))
    /\ last' = Nothing
    /\ KeepLog
    /\ UNCHANGED <<windows, holder, poisoned, main, clock, pc, k, alive,
                   wmFocused, dumped>>

\* an event of a type other than window comes out of listener.listen()
ForeignEvent(ty) ==
    /\ serverUp
    /\ Len(events) < MaxFeed
    /\ events' = Append(events, Event(ty, "none", NoWindow, Organic))
    /\ last' = Nothing
    /\ KeepLog
    /\ UNCHANGED <<windows, holder, poisoned, main, clock, pc, k, alive,
                   wmFocused, dumped>>

\* i3: window w is closed; when it held the focus, the focus moves on
CloseWindow(w) ==
    /\ serverUp
    /\ w \in alive
    /\ alive' = alive \ {w}
    /\ IF wmFocused # w
         THEN UNCHANGED <<wmFocused, events>>
         ELSE IF alive' = {}
           THEN wmFocused' = NoWindow /\ UNCHANGED events
           ELSE /\ Len(events) < MaxEvents
                /\ \E w2 \in alive' :
                     /\ wmFocused' = w2
                     /\ events' = Append(events, FocusEvent(w2, Organic))
    /\ last' = Nothing
    /\ KeepLog
    /\ UNCHANGED <<windows, holder, poisoned, main, clock, pc, k, dumped>>

\* focus_server, one turn of the loop over listener.listen(): an event that
\* is not a window event reaches unreachable!(), which panics; a window event
\* whose change is not focus is passed over; the WindowChange::Focus arm runs
\* under windows.lock().unwrap(), and on a poisoned Mutex unwrap() panics. A
\* panic of the main thread ends the process.
Ingest ==
    /\ serverUp
    /\ events # <<>>
    /\ IF ~IsWindowEvent(Head(events))
         THEN /\ main' = "panicked"
              /\ last' = [Nothing EXCEPT !.kind = "unreachable", !.panic = TRUE]
              /\ UNCHANGED <<windows, events, dumped>>
         ELSE IF ~IsFocusChange(Head(events))
           THEN /\ events' = Tail(events)
                /\ last' = [Nothing EXCEPT !.kind = "skip"]
                /\ UNCHANGED <<windows, main, dumped>>
           ELSE /\ CanLock(holder)
                /\ IF poisoned
                     THEN /\ main' = "panicked"
                          /\ last' = [Nothing EXCEPT !.kind = "ingest",
                                                     !.panic = TRUE]
                          /\ UNCHANGED <<windows, events, dumped>>
                     ELSE /\ windows' = OnFocus(windows, Head(events).id, clock)
                          /\ events' = Tail(events)
                          /\ last' = [Nothing EXCEPT !.kind = "ingest",
                                                     !.before = windows,
                                                     !.cause = Head(events).cause]
                          /\ dumped' = <<>>
                          /\ UNCHANGED main
    /\ KeepLog
    /\ UNCHANGED <<holder, poisoned, clock, pc, k, alive, wmFocused>>

\* cmd_server: a connection is accepted, its thread reads one line and
\* matches it; the `_` arm answers at once and the thread ends
Accept(c, l) ==
    /\ serverUp
    /\ pc[c] = "idle"
    /\ IF Dispatch(l) = "invalid"
         THEN /\ last' = [Nothing EXCEPT !.kind = "invalid", !.conn = c,
                                         !.line = l, !.sent = <<INVALID_REPLY>>]
              /\ UNCHANGED pc
         ELSE /\ pc' = [pc EXCEPT ![c] = Dispatch(l)]
              /\ last' = [Nothing EXCEPT !.kind = "accept", !.conn = c,
                                         !.line = l]
    /\ KeepLog
    /\ UNCHANGED <<windows, holder, poisoned, main, clock, k, alive,
                   wmFocused, events, dumped>>

\* the switch arm: windows.lock().unwrap(), then the front record is marked
SwitchLock(c) ==
    /\ serverUp
    /\ pc[c] = "switch"
    /\ CanLock(holder)
    /\ IF poisoned
         THEN /\ pc' = [pc EXCEPT ![c] = "idle"]
              /\ last' = [Nothing EXCEPT !.kind = "switch", !.conn = c,
                                         !.line = SwitchLine, !.panic = TRUE]
              /\ UNCHANGED <<windows, holder, dumped>>
         ELSE /\ holder' = c
              /\ windows' = MarkPendingSwitch(windows)
              /\ pc' = [pc EXCEPT ![c] = "connect"]
              /\ last' = Nothing
              /\ dumped' = <<>>
    /\ KeepLog
    /\ UNCHANGED <<poisoned, main, clock, k, alive, wmFocused, events>>

\* focus_nth: I3Connection::connect() succeeds; k = n
Connect(c) ==
    /\ serverUp
    /\ pc[c] = "connect"
    /\ pc' = [pc EXCEPT ![c] = "loop"]
    /\ k' = [k EXCEPT ![c] = FOCUS_NTH_START]
    /\ last' = Nothing
    /\ KeepLog
    /\ UNCHANGED <<windows, holder, poisoned, main, clock, alive,
                   wmFocused, events, dumped>>

\* focus_nth: I3Connection::connect() fails and unwrap() panics; the thread
\* unwinds with the MutexGuard alive, which poisons the Mutex
ConnectFail(c) ==
    /\ serverUp
    /\ pc[c] = "connect"
    /\ pc' = [pc EXCEPT ![c] = "idle"]
    /\ poisoned' = TRUE
    /\ holder' = Free
    /\ last' = [Nothing EXCEPT !.kind = "switch", !.conn = c,
                               !.line = SwitchLine, !.panic = TRUE]
    /\ KeepLog
    /\ UNCHANGED <<windows, main, clock, k, alive, wmFocused, events,
                   dumped>>

\* the switch handler ends with focus_nth's result r, which `let _ =` drops
SwitchEnd(c, r) ==
    /\ pc' = [pc EXCEPT ![c] = "idle"]
    /\ k' = [k EXCEPT ![c] = 0]
    /\ holder' = Free
    /\ last' = [Nothing EXCEPT !.kind = "switch", !.conn = c,
                               !.line = SwitchLine, !.ret = r]

\* i3 answers `[con_id=wid] focus`: success when the window exists, and then
\* it has the focus; a focus notification follows when the focus moved
WmAccepts(wid) == wid \in alive

WmFocus(c, wid) ==
    /\ wmFocused' = wid
    /\ events' = IF wmFocused = wid THEN events
                 ELSE Append(events, FocusEvent(wid, c))

\* mutant of HasRecord: the last record is never tried
HasRecordButLast(ws, n) == n + 1 < Len(ws)

\* windows.get(k) is Some
HasRecord(ws, n) == n < Len(ws)

\* mutant of NextIndex: k is not advanced
NextIndexStay(n) == n

\* k += 1
NextIndex(n) == n + 1

\* focus_nth: one turn of the while loop, or the Err after it
FocusNthStep(c) ==
    /\ serverUp
    /\ pc[c] = "loop"
    /\ IF HasRecord(windows, k[c])
         THEN LET wid == windows[k[c] + 1].id
                  ok == WmAccepts(wid)
              IN /\ reqs' = Append(reqs, [k |-> k[c], id |-> wid,
                                  reply |-> IF ok THEN "success" ELSE "failure"])
                 /\ IF ok
                      THEN /\ WmFocus(c, wid)
                           /\ SwitchEnd(c, "ok")
                      ELSE /\ k' = [k EXCEPT ![c] = NextIndex(@)]
                           /\ last' = Nothing
                           /\ UNCHANGED <<wmFocused, events, pc, holder>>
         ELSE /\ SwitchEnd(c, "unavailable")
              /\ UNCHANGED <<reqs, wmFocused, events>>
    /\ UNCHANGED <<windows, poisoned, main, clock, alive, dumped>>

\* focus_nth: conn.run_command(..)? returns Err, which `?` returns at once
RequestError(c) ==
    /\ serverUp
    /\ pc[c] = "loop"
    /\ HasRecord(windows, k[c])
    /\ reqs' = Append(reqs, [k |-> k[c], id |-> windows[k[c] + 1].id,
                              reply |-> "error"])
    /\ SwitchEnd(c, "ipc_error")
    /\ UNCHANGED <<windows, poisoned, main, clock, alive, wmFocused,
                   events, dumped>>

\* the debug arm: windows.lock().unwrap(), then the dump is written
ServeDebug(c) ==
    /\ serverUp
    /\ pc[c] = "debug"
    /\ CanLock(holder)
    /\ pc' = [pc EXCEPT ![c] = "idle"]
    /\ IF poisoned
         THEN /\ last' = [Nothing EXCEPT !.kind = "debug", !.conn = c,
                                         !.line = DebugLine, !.panic = TRUE]
              /\ UNCHANGED dumped
         ELSE /\ last' = [Nothing EXCEPT !.kind = "debug", !.conn = c,
                                         !.line = DebugLine,
                                         !.sent = <<Dump(windows)>>]
              /\ dumped' = IF dumped = <<>> THEN <<Dump(windows)>>
                           ELSE <<dumped[Len(dumped)], Dump(windows)>>
    /\ KeepLog
    /\ UNCHANGED <<windows, holder, poisoned, main, clock, k, alive,
                   wmFocused, events>>

Next ==
    \/ Tick
    \/ \E w \in Windows : OrganicFocus(w)
    \/ \E w \in Windows : CloseWindow(w)
    \/ Ingest
    \/ \E c \in Conns, l \in Lines : Accept(c, l)
    \/ \E c \in Conns : SwitchLock(c)
    \/ \E c \in Conns : Connect(c)
    \/ \E c \in Conns : ConnectFail(c)
    \/ \E c \in Conns : FocusNthStep(c)
    \/ \E c \in Conns : RequestError(c)
    \/ \E c \in Conns : ServeDebug(c)

Spec == Init /\ [][Next]_vars

\* ------------------------------------------------- seeded specifications

\* The history after windows 1..n were focused one after the other, each
\* MIN_FOCUS after the one before, the last one at clock 0, and every
\* notification was read: what focus_server's loop builds from such a feed.
SeededHistory(n) == [i \in 1..n |-> Window(n + 1 - i, 0 - MIN_FOCUS * (i - 1))]

InitSeeded(n, ws) ==
    /\ InitConns
    /\ clock = 0
    /\ alive = ws
    /\ wmFocused = n
    /\ windows = SeededHistory(n)
    /\ events = <<>>

\* the switch command alone
NextSwitch ==
    \/ Tick
    \/ Ingest
    \/ \E c \in Conns : Accept(c, SwitchLine)
    \/ \E c \in Conns : SwitchLock(c)
    \/ \E c \in Conns : Connect(c)
    \/ \E c \in Conns : ConnectFail(c)
    \/ \E c \in Conns : FocusNthStep(c)
    \/ \E c \in Conns : RequestError(c)

\* SpecToggle: switch commands on a history of live windows, nothing else
\* changing the focus
SeededWindows == 1..NumSeeded
InitToggle == \E n \in 2..NumSeeded : InitSeeded(n, SeededWindows)
SpecToggle == InitToggle /\ [][NextSwitch]_vars

\* SpecStale: switch commands while windows of the history are closed
InitStale == InitSeeded(NumSeeded, SeededWindows)
NextStale ==
    \/ NextSwitch
    \/ \E w \in SeededWindows : CloseWindow(w)
SpecStale == InitStale /\ [][NextStale]_vars

\* SpecFill: a history of BUFFER_SIZE - 1 or BUFFER_SIZE records, and focus
\* notifications for its oldest window, window BUFFER_SIZE and windows not in
\* it
FillWindows == 1..(BUFFER_SIZE + NumFresh)
FillTargets == {1} \cup (BUFFER_SIZE..(BUFFER_SIZE + NumFresh))
InitFill == \E n \in {BUFFER_SIZE - 1, BUFFER_SIZE} : InitSeeded(n, FillWindows)
NextFill ==
    \/ Tick
    \/ Ingest
    \/ \E w \in FillTargets : OrganicFocus(w)
SpecFill == InitFill /\ [][NextFill]_vars

\* SpecShape: as SpecFill, the front record flagged or not: flagged is the
\* history a switch command leaves whose request failed as a request
InitShape ==
    \E n \in {BUFFER_SIZE - 1, BUFFER_SIZE} :
      /\ InitConns
      /\ clock = 0
      /\ alive = FillWindows
      /\ wmFocused = n
      /\ windows \in {SeededHistory(n), MarkPendingSwitch(SeededHistory(n))}
      /\ events = <<>>
SpecShape == InitShape /\ [][NextFill]_vars

\* SpecBoot: the server from its start, with focus changes and debug
\* commands
NextBoot ==
    \/ \E found \in BOOLEAN : Bootstrap(found)
    \/ BootstrapPanic
    \/ Tick
    \/ Ingest
    \/ \E w \in Windows : OrganicFocus(w)
    \/ \E c \in Conns : Accept(c, DebugLine)
    \/ \E c \in Conns : ServeDebug(c)
SpecBoot == InitBoot /\ [][NextBoot]_vars

\* SpecFeed: the event feed with events of every kind, and no commands
NextFeed ==
    \/ Tick
    \/ Ingest
    \/ \E w \in Windows : UserFocus(w, MaxFeed)
    \/ \E w \in Windows, ch \in OtherChanges : OtherWindowEvent(w, ch)
    \/ \E ty \in OtherTypes : ForeignEvent(ty)
SpecFeed == Init /\ [][NextFeed]_vars

\* ----------------------------------------------------------------- claims

\* the step is a focus notification processed by the loop of focus_server
IngestStep == last'.kind = "ingest" /\ ~last'.panic
\* the state a processed focus notification leads to
Ingested == last.kind = "ingest" /\ ~last.panic

\* C1: no two records of the history have the same window id.
C1_Uniqueness ==
    \A i, j \in 1..Len(windows) : windows[i].id = windows[j].id => i = j

\* C1 witness: a window that was in the history behind the front has just
\* been focused again.
C1_Witness ==
    /\ Ingested
    /\ \E i \in 2..Len(last.before) : last.before[i].id = windows[1].id

\* C2: the history never holds more than BUFFER_SIZE records; a processed
\* notification puts its window at the front, and of the records behind the
\* old front that are not this window, only the ones at the tail are dropped
\* (a record that is kept has the one before it kept too, the focused window
\* skipped).
C2_Bounded ==
    /\ [](Len(windows) <= BUFFER_SIZE)
    /\ [][IngestStep =>
            LET new == Head(events).id
                Kept(i) == \E j \in 1..Len(windows') : windows'[j] = windows[i]
            IN /\ windows'[1].id = new
               /\ \A j \in 3..Len(windows) :
                    Kept(j) =>
                      /\ windows[j - 1].id # new => Kept(j - 1)
                      /\ (windows[j - 1].id = new /\ j > 3) => Kept(j - 2)]_vars

\* C2 witness: a window not in a history of BUFFER_SIZE records was focused,
\* the old front stayed, and the oldest record is gone.
C2_Witness ==
    /\ Ingested
    /\ Len(last.before) = BUFFER_SIZE
    /\ Len(windows) = BUFFER_SIZE
    /\ windows[1].id \notin Ids(last.before)
    /\ windows[2] = last.before[1]
    /\ last.before[BUFFER_SIZE].id \notin Ids(windows)

\* C4: a notification processed on a history whose front record f is not
\* flagged removes f when less than MIN_FOCUS has passed since f.focused,
\* and else keeps f as the second record (f being the window focused again
\* aside).
C4_Debounce ==
    [][(IngestStep /\ windows # <<>> /\ ~windows[1].just_switched) =>
         IF clock - windows[1].focused < MIN_FOCUS
           THEN windows[1].id # Head(events).id
                  => windows[1].id \notin Ids(windows')
           ELSE windows[1].id # Head(events).id
                  => Len(windows') >= 2 /\ windows'[2] = windows[1]]_vars

\* C4 witness: the front record, not flagged, had the focus for exactly
\* MIN_FOCUS when the next notification was processed, and is now second.
C4_Witness ==
    /\ Ingested
    /\ last.before # <<>>
    /\ ~last.before[1].just_switched
    /\ windows[1].focused - last.before[1].focused = MIN_FOCUS
    /\ Len(windows) >= 2
    /\ windows[2] = last.before[1]

\* C10: only the front record can have just_switched = true (so at most one
\* record has).
C10_FlagOnlyAtFront ==
    \A i \in 1..Len(windows) : windows[i].just_switched => i = 1

\* C10 witness: a notification found the front record flagged, and that
\* record is now second.
C10_Witness ==
    /\ Ingested
    /\ last.before # <<>>
    /\ last.before[1].just_switched
    /\ Len(windows) >= 2
    /\ windows[2].id = last.before[1].id

\* C3: with only switch commands changing the focus of live windows, the
\* notification caused by a switch served on [A, B, ...] leaves [B, A, ...]
\* whatever the time since A was focused, and no window ever leaves the
\* history.
C3_Toggle ==
    /\ [][(IngestStep /\ Head(events).cause \in Conns /\ Len(windows) >= 2) =>
            /\ Len(windows') = Len(windows)
            /\ windows'[1].id = windows[2].id
            /\ windows'[2].id = windows[1].id
            /\ \A i \in 3..Len(windows) : windows'[i] = windows[i]]_vars
    /\ [][Ids(windows) \subseteq Ids(windows')]_vars

\* C3 witness: the notification of a switch was processed less than
\* MIN_FOCUS after A was focused, and the history went from [A, B, ..] to
\* [B, A, ..].
C3_Witness ==
    /\ Ingested
    /\ last.cause \in Conns
    /\ Len(last.before) >= 2
    /\ windows[1].focused - last.before[1].focused < MIN_FOCUS
    /\ windows[1].id = last.before[2].id
    /\ windows[2].id = last.before[1].id

\* the focus_nth call of the state's last step returned (ok or an error)
Returned == last.kind = "switch" /\ last.ret # "none"

\* C5: focus_nth asks for the records at FOCUS_NTH_START, FOCUS_NTH_START + 1,
\* ... in this order, each once; a request i3 accepts is the last one, the
\* call returns success with it, and that window then has the focus; every
\* request before it was rejected.
C5_StaleSkip ==
    /\ \A i \in 1..Len(reqs) :
         /\ reqs[i].k = FOCUS_NTH_START + i - 1
         /\ reqs[i].k < Len(windows)
         /\ reqs[i].id = windows[reqs[i].k + 1].id
         /\ i < Len(reqs) => reqs[i].reply = "failure"
    /\ (reqs # <<>> /\ reqs[Len(reqs)].reply = "success")
         => (Returned /\ last.ret = "ok" /\ wmFocused = reqs[Len(reqs)].id)
    /\ (Returned /\ last.ret = "ok")
         => (reqs # <<>> /\ reqs[Len(reqs)].reply = "success")

\* C5 witness: a call returned success after at least one rejected request.
C5_Witness ==
    /\ Returned
    /\ last.ret = "ok"
    /\ Len(reqs) >= 2
    /\ reqs[1].reply = "failure"

\* the indices focus_nth is to try: FOCUS_NTH_START and up
Candidates == FOCUS_NTH_START..(Len(windows) - 1)

\* C6 as stated: focus_nth returns TargetUnavailable exactly when no request
\* was accepted, and returns no failure while a record i3 would accept has
\* not been tried.
C6_AsStated ==
    Returned =>
      /\ last.ret = "unavailable"
           <=> (\A i \in 1..Len(reqs) : reqs[i].reply # "success")
      /\ last.ret # "ok" =>
           \A j \in Candidates :
             WmAccepts(windows[j + 1].id) => \E i \in 1..Len(reqs) : reqs[i].k = j

\* C6 amended: focus_nth returns TargetUnavailable exactly when every record
\* at FOCUS_NTH_START and up was requested and rejected (no request when
\* there is none); a request that fails as a request ends the call at once
\* with that error, later records untried.
C6_Exhaustion ==
    Returned =>
      /\ last.ret = "unavailable"
           <=> /\ \A j \in Candidates :
                    \E i \in 1..Len(reqs) :
                      reqs[i].k = j /\ reqs[i].reply = "failure"
               /\ Len(reqs) = Cardinality(Candidates)
      /\ last.ret = "ipc_error"
           <=> (reqs # <<>> /\ reqs[Len(reqs)].reply = "error")

\* C6 witness: a call returned TargetUnavailable after two rejected requests.
C6_Witness ==
    /\ Returned
    /\ last.ret = "unavailable"
    /\ Len(reqs) >= 2

\* the line is anything but exactly `switch` or `debug`
NotACommand(l) ==
    ~(l.tag = "line" /\ (l.text = "switch" \/ l.text = "debug"))

\* C7: a connection whose first line is not a command is answered with
\* INVALID_REPLY and nothing else, its thread ends, the history is as it
\* was and nothing is asked of i3.
C7_InvalidCommand ==
    [][(last'.kind \in {"accept", "invalid"} /\ NotACommand(last'.line)) =>
         /\ last'.kind = "invalid"
         /\ last'.sent = <<INVALID_REPLY>>
         /\ pc'[last'.conn] = "idle"
         /\ windows' = windows
         /\ Len(reqs') <= Len(reqs)
         /\ wmFocused' = wmFocused
         /\ events' = events]_vars

\* C7 witness: no line at all was answered while a record was flagged.
C7_Witness ==
    /\ last.kind = "invalid"
    /\ last.line.tag = "eof"
    /\ last.sent = <<INVALID_REPLY>>
    /\ windows # <<>>
    /\ windows[1].just_switched

\* C8: serving debug leaves the history as it was and asks nothing of i3,
\* and the dumps written since the history was last written are the same.
C8_DebugReadOnly ==
    /\ [][last'.kind = "debug" =>
            /\ windows' = windows
            /\ Len(reqs') <= Len(reqs)
            /\ wmFocused' = wmFocused
            /\ events' = events]_vars
    /\ [](Len(dumped) = 2 => dumped[1] = dumped[2])

\* C8 witness: a second dump of a history of two records, later than the
\* front record was focused.
C8_Witness ==
    /\ last.kind = "debug"
    /\ Len(dumped) = 2
    /\ Len(windows) = 2
    /\ clock > windows[1].focused

\* C9 as stated: when focus_nth fails in a switch command nothing is written
\* to the client, the Mutex is released, and it can be locked again by the
\* loop of focus_server and by later commands.
C9_AsStated ==
    (last.kind = "switch" /\ last.ret # "ok") =>
      /\ last.sent = <<>>
      /\ holder = Free
      /\ ~poisoned

\* a switch command is being served, or the focus notification of a served
\* switch command waits in the feed
SwitchOutstanding ==
    \/ holder # Free
    \/ \E i \in 1..Len(events) : events[i].cause \in Conns

\* C11 as stated: a record has just_switched = true only while a switch
\* command is being served or the focus notification its request caused is
\* still to be processed; in every other state no record is flagged (also
\* where no handler has panicked).
C11_AsStated ==
    (~poisoned /\ \E i \in 1..Len(windows) : windows[i].just_switched)
      => SwitchOutstanding

\* C12 as stated: a processed focus notification that finds the front record
\* flagged, and so skips the MIN_FOCUS check, was caused by the request of a
\* switch command, never by an organic focus change (also where no handler
\* has panicked).
C12_AsStated ==
    [][(IngestStep /\ ~poisoned /\ windows # <<>> /\ windows[1].just_switched)
         => Head(events).cause \in Conns]_vars

\* C13: from the marking of the front record to the end of focus_nth the
\* switch handler holds the Mutex without a break: the marking is done in the
\* step that takes the Mutex, every request to i3 is made by the holder, and
\* while it is held no notification is applied to the history, no debug
\* command reads it, no other switch command takes it and the history is as
\* the marking left it.
C13_AtomicSwitch ==
    /\ [](\A c \in Conns : pc[c] \in {"connect", "loop"} => holder = c)
    /\ [][(holder = Free /\ holder' # Free)
            => windows' = MarkPendingSwitch(windows)]_vars
    /\ [][Len(reqs') > Len(reqs) => (holder # Free /\ pc[holder] = "loop")]_vars
    /\ [][holder # Free =>
            /\ windows' = windows
            /\ holder' \in {holder, Free}
            /\ last'.kind \notin {"ingest", "debug"}]_vars

\* C13 witness: a switch handler holds the Mutex after a rejected request
\* while a notification waits in the feed and another connection waits for
\* the Mutex.
C13_Witness ==
    /\ holder # Free
    /\ reqs # <<>>
    /\ windows # <<>>
    /\ windows[1].just_switched
    /\ events # <<>>
    /\ \E c \in Conns : pc[c] \in {"switch", "debug"}

\* C14 as stated: on a history [A, B, ...] of live windows whose focus only
\* switch commands change, every served switch command gives the focus to
\* the window that had it before the one that has it now, so the focus goes
\* B, A, B, ...: a switch command whose request is accepted moves the focus,
\* also when it is served before the notification of the switch before it
\* has been processed.
C14_AsStated ==
    [][(last'.kind = "switch" /\ last'.ret = "ok") => wmFocused' # wmFocused]_vars

\* the event at the head of the feed is a focus notification
HeadIsFocus == Head(events).type = "window" /\ Head(events).change = "focus"

\* the step reads an event from the feed
ReadStep == last'.kind \in {"ingest", "skip", "unreachable"}

C16_OnFocusShape ==
    [][IngestStep =>
         LET old == windows
             new == windows'
             new_id == Head(events).id
             Near(j) == {i \in (j - 1)..(j + 1) : 1 <= i /\ i <= Len(old)}
             Src(j) == CHOOSE i \in Near(j) : old[i].id = new[j].id
             Survives(i) ==
                 \E j \in (i - 1)..(i + 1) :
                   2 <= j /\ j <= Len(new) /\ new[j].id = old[i].id
             Debounced ==
                 ~old[1].just_switched /\ clock - old[1].focused < MIN_FOCUS
         IN /\ new[1] = [id |-> new_id, just_switched |-> FALSE,
                         focused |-> clock]
            /\ \A j \in 2..Len(new) :
                 \E i \in Near(j) :
                   old[i].id = new[j].id /\ old[i].focused = new[j].focused
            /\ \A j \in 2..(Len(new) - 1) : Src(j) < Src(j + 1)
            /\ \A i \in 1..Len(old) :
                 ~Survives(i) =>
                   \/ i = 1 /\ Debounced
                   \/ old[i].id = new_id
                   \/ /\ Len(new) = BUFFER_SIZE
                      /\ \A i2 \in i..Len(old) : ~Survives(i2)]_vars

\* C16 witness: a window not in a history of BUFFER_SIZE records was focused
\* while the front record was flagged: the old front is second, its flag
\* cleared, and the oldest record was cut.
C16_Witness ==
    /\ Ingested
    /\ Len(last.before) = BUFFER_SIZE
    /\ last.before[1].just_switched
    /\ Len(windows) = BUFFER_SIZE
    /\ windows[2].id = last.before[1].id
    /\ ~windows[2].just_switched
    /\ last.before[BUFFER_SIZE].id \notin Ids(windows)

\* C17: a step that is not a processed notification leaves the history as it
\* was, but for the step in which a switch command takes the Mutex, which
\* sets just_switched on the front record and changes nothing else: ids,
\* order and focused stay. The records i3 rejected are still in the
\* history, and no request is made for the front record.
C17_SwitchFrame ==
    /\ [][~IngestStep =>
            \/ windows' = windows
            \/ /\ holder = Free
               /\ holder' # Free
               /\ windows # <<>>
               /\ Len(windows') = Len(windows)
               /\ windows'[1] = [windows[1] EXCEPT !.just_switched = TRUE]
               /\ \A i \in 2..Len(windows) : windows'[i] = windows[i]]_vars
    /\ [](\A i \in 1..Len(reqs) :
            /\ reqs[i].k >= 1
            /\ reqs[i].id # windows[1].id
            /\ \E j \in 2..Len(windows) : windows[j].id = reqs[i].id)

\* C17 witness: a switch command on three records has ended after a
\* rejected request; the front record is flagged and the rejected record is
\* still in the history.
C17_Witness ==
    /\ Returned
    /\ Len(windows) = 3
    /\ windows[1].just_switched
    /\ reqs # <<>>
    /\ reqs[1].reply = "failure"
    /\ windows[2].id = reqs[1].id
    /\ windows[2].id \notin alive

\* C18 as stated: every focus notification delivered is applied to the
\* history in the end, also after a switch handler failed while it held the
\* Mutex; so while a notification waits in the feed the loop of focus_server
\* is there to read it.
C18_AsStated == events # <<>> => serverUp

\* the step is the end of the bootstrap
BootStep == main = "boot" /\ main' # "boot"

C20_MostRecentFirst ==
    /\ [](\A i \in 1..(Len(windows) - 1) :
            windows[i].focused >= windows[i + 1].focused)
    /\ [][IngestStep =>
            /\ windows'[1].id = Head(events).id
            /\ windows'[1].focused = clock]_vars
    /\ [][~IngestStep =>
            \/ windows = <<>> /\ windows' = <<>>
            \/ /\ windows # <<>>
               /\ windows' # <<>>
               /\ windows'[1].id = windows[1].id
               /\ windows'[1].focused = windows[1].focused]_vars

\* C20 witness: a switch command has moved the focus in i3 and its
\* notification is not yet processed: the front record is still the window
\* of the last processed notification, focused later than the record behind.
C20_Witness ==
    /\ Returned
    /\ last.ret = "ok"
    /\ events # <<>>
    /\ Len(windows) = 2
    /\ windows[1].id # wmFocused
    /\ windows[1].focused > windows[2].focused

====
